---- MODULE Spec2Model ----
(***************************************************************************)
(* Model of raiden_mps/crypto.py: address derivation, the sha3 packed      *)
(* encoder, recoverable signing / address recovery, and the balance-proof  *)
(* and closing-agreement protocols built on them.                          *)
(*                                                                         *)
(* Values.  Every Python value is a sequence of tagged segments:           *)
(*   bytes : <<"b", n>>                one concrete byte n \in 0..255      *)
(*           <<"blob", term, lo, hi>>  bytes lo..hi of an opaque string    *)
(*                                     named by term (a digest, r||s, the  *)
(*                                     coordinates of a curve point)       *)
(*   str   : <<"c", n>>                one character, code point n         *)
(*           <<"hex", blob>>           the lowercase hex of a blob         *)
(*   a raised exception : << <<"error", kind>> >>                          *)
(*   a PublicKey object : << <<"PublicKey", term>> >>                      *)
(* Python ints are unbounded: [neg, mag], mag the big-endian hex digits    *)
(* without leading zeros.  keccak and secp256k1 are the ideal primitives:  *)
(* keccak is injective (its digest names its pre-image) and a signature    *)
(* recovers to the signer's key exactly for the digest and recovery id it  *)
(* was made with.                                                          *)
(***************************************************************************)
EXTENDS Integers, Sequences, FiniteSets, TLC

VARIABLES pc, last, wire, highest

vars == <<pc, last, wire, highest>>

----------------------------------------------------------------------------
(* Bounds of the model *)

NumKeys == 2
MaxVal == 300
MaxBlock == 2
MaxCraftedR == 2

----------------------------------------------------------------------------
(* Exceptions *)

Err(kind) == << <<"error", kind>> >>

IsErr(x) == Len(x) = 1 /\ x[1][1] = "error"

----------------------------------------------------------------------------
(* Python int *)

Rep(d, n) == [i \in 1..n |-> d]

RECURSIVE NatDigits(_)
NatDigits(n) == IF n < 16 THEN <<n>> ELSE Append(NatDigits(n \div 16), n % 16)

Big(n) == IF n < 0 THEN [neg |-> TRUE, mag |-> NatDigits(0 - n)]
                   ELSE [neg |-> FALSE, mag |-> NatDigits(n)]

Min(S) == CHOOSE x \in S : \A y \in S : x <= y

Max(S) == CHOOSE x \in S : \A y \in S : x >= y

\* digits without their leading zeros
StripZeros(ds) ==
    LET nz == {i \in 1..Len(ds) : ds[i] # 0}
    IN  IF nz = {} THEN <<0>> ELSE SubSeq(ds, Min(nz), Len(ds))

\* -1, 0, 1: how magnitude a compares with magnitude b
CmpMag(a, b) ==
    IF Len(a) < Len(b) THEN -1
    ELSE IF Len(a) > Len(b) THEN 1
    ELSE LET diff == {i \in 1..Len(a) : a[i] # b[i]}
         IN  IF diff = {} THEN 0
             ELSE IF a[Min(diff)] < b[Min(diff)] THEN -1 ELSE 1

IntLess(x, y) ==
    IF x.neg /\ ~y.neg THEN TRUE
    ELSE IF ~x.neg /\ y.neg THEN FALSE
    ELSE IF x.neg THEN CmpMag(x.mag, y.mag) = 1
    ELSE CmpMag(x.mag, y.mag) = -1

\* a - b for magnitudes a >= b: digit i borrows when the digits after it are
\* less in a than in b
SubMag(a, b) ==
    LET n == Len(a)
        bp == Rep(0, n - Len(b)) \o b
        Borrow(i) == LET diff == {j \in (i + 1)..n : a[j] # bp[j]}
                     IN  IF diff # {} /\ a[Min(diff)] < bp[Min(diff)] THEN 1 ELSE 0
    IN  StripZeros([i \in 1..n |-> (a[i] - bp[i] - Borrow(i) + 16) % 16])

RECURSIVE Pow2Small(_)
Pow2Small(k) == IF k = 0 THEN 1 ELSE 2 * Pow2Small(k - 1)

\* the magnitude of 1 << size, size >= 0
Pow2Mag(size) == <<Pow2Small(size % 4)>> \o Rep(0, size \div 4)

\* (1 << size) + value for value < 0 and size >= 0
ShlAdd(size, value) ==
    IF CmpMag(Pow2Mag(size), value.mag) >= 0
    THEN [neg |-> FALSE, mag |-> SubMag(Pow2Mag(size), value.mag)]
    ELSE [neg |-> TRUE, mag |-> SubMag(value.mag, Pow2Mag(size))]

----------------------------------------------------------------------------
(* str *)

HexLower == <<"0", "1", "2", "3", "4", "5", "6", "7", "8", "9",
              "a", "b", "c", "d", "e", "f">>

HexUpper == <<"0", "1", "2", "3", "4", "5", "6", "7", "8", "9",
              "A", "B", "C", "D", "E", "F">>

\* ord(ch) of the characters the model writes
Ord(ch) ==
    IF \E i \in 1..10 : HexLower[i] = ch THEN 47 + (CHOOSE i \in 1..10 : HexLower[i] = ch)
    ELSE IF \E i \in 11..16 : HexLower[i] = ch
         THEN 86 + (CHOOSE i \in 11..16 : HexLower[i] = ch)
    ELSE IF \E i \in 11..16 : HexUpper[i] = ch
         THEN 54 + (CHOOSE i \in 11..16 : HexUpper[i] = ch)
    ELSE IF ch = "x" THEN 120
    ELSE IF ch = "X" THEN 88
    ELSE IF ch = "g" THEN 103
    ELSE 45

\* a character is kept as its code point
C(ch) == <<"c", Ord(ch)>>

Char0 == C("0")

CharLowerX == C("x")

CharUpperX == C("X")

CharMinus == C("-")

Prefix0x == <<Char0, CharLowerX>>

IsDigit(n) == 48 <= n /\ n <= 57

IsLowerHex(n) == 97 <= n /\ n <= 102

IsUpperHex(n) == 65 <= n /\ n <= 70

IsHexChar(n) == IsDigit(n) \/ IsLowerHex(n) \/ IsUpperHex(n)

HexVal(n) == IF IsDigit(n) THEN n - 48 ELSE IF IsLowerHex(n) THEN n - 87 ELSE n - 55

\* the lowercase hex digit of d \in 0..15
HexDigit(d) == <<"c", IF d < 10 THEN 48 + d ELSE 87 + d>>

\* ch.lower()
LowerChar(n) == IF 65 <= n /\ n <= 90 THEN n + 32 ELSE n

IsChar(seg) == seg[1] = "c"

\* the sum of f[i] over the indices in S
RECURSIVE SumOver(_, _)
SumOver(f, S) ==
    IF S = {} THEN 0
    ELSE LET i == CHOOSE x \in S : TRUE IN f[i] + SumOver(f, S \ {i})

\* len(s): a hex run of a blob is two characters for each of its bytes
StrLen(s) ==
    LET runs == {i \in 1..Len(s) : ~IsChar(s[i])}
    IN  Len(s) - Cardinality(runs)
            + SumOver([i \in runs |-> 2 * (s[i][2][4] - s[i][2][3] + 1)], runs)

\* s.startswith('0x') or s.startswith('0X')
is_0x_prefixed(s) ==
    /\ Len(s) >= 2
    /\ s[1] = Char0
    /\ s[2] \in {CharLowerX, CharUpperX}

remove_0x_prefix(s) == IF is_0x_prefixed(s) THEN SubSeq(s, 3, Len(s)) ELSE s

add_0x_prefix(s) == IF is_0x_prefixed(s) THEN s ELSE Prefix0x \o s

\* '{:x}'.format(value)
format_x(value) ==
    (IF value.neg THEN <<CharMinus>> ELSE <<>>)
        \o [i \in 1..Len(value.mag) |-> HexDigit(value.mag[i])]

\* s.zfill(width): zeros go after a leading sign
zfill(s, width) ==
    IF Len(s) >= width THEN s
    ELSE IF Len(s) > 0 /\ s[1] = CharMinus
         THEN <<CharMinus>> \o Rep(Char0, width - Len(s)) \o Tail(s)
         ELSE Rep(Char0, width - Len(s)) \o s

----------
(* bytes *)

B(n) == <<"b", n>>

Blob(term, lo, hi) == <<"blob", term, lo, hi>>

IsByte(seg) == seg[1] = "b"

SegLen(seg) == IF IsByte(seg) THEN 1 ELSE seg[4] - seg[3] + 1

\* len(bs)
BytesLen(bs) ==
    LET blobs == {i \in 1..Len(bs) : ~IsByte(bs[i])}
    IN  Len(bs) - Cardinality(blobs) + SumOver([i \in blobs |-> SegLen(bs[i])], blobs)

\* bs[-n:]
RECURSIVE LastBytes(_, _)
LastBytes(bs, n) ==
    IF n <= 0 \/ Len(bs) = 0 THEN <<>>
    ELSE LET s == bs[Len(bs)]
         IN  IF SegLen(s) <= n
             THEN Append(LastBytes(SubSeq(bs, 1, Len(bs) - 1), n - SegLen(s)), s)
             ELSE <<Blob(s[2], s[4] - n + 1, s[4])>>

\* binascii.unhexlify: an odd number of digits or a non-hex character raises
\* (a hex run of a blob decodes to the blob; the characters between runs pair up)
unhexlify(s) ==
    LET n == Len(s)
        runs == {i \in 1..n : ~IsChar(s[i])}
        PrevRun(i) == LET before == {j \in runs : j < i}
                      IN  IF before = {} THEN 0 ELSE Max(before)
        \* a run, or the first character of a pair
        IsStart(i) == ~IsChar(s[i]) \/ (i - PrevRun(i)) % 2 = 1
        bad == \E i \in 1..n :
                  /\ IsChar(s[i])
                  /\ \/ ~IsHexChar(s[i][2])
                     \/ IsStart(i) /\ (i = n \/ ~IsChar(s[i + 1]))
        starts == SelectSeq([i \in 1..n |-> i], IsStart)
    IN  IF bad THEN Err("binascii.Error")
        ELSE [k \in 1..Len(starts) |->
                IF IsChar(s[starts[k]])
                THEN B(16 * HexVal(s[starts[k]][2]) + HexVal(s[starts[k] + 1][2]))
                ELSE s[starts[k]][2]]

\* eth_utils.decode_hex
decode_hex(s) == unhexlify(remove_0x_prefix(s))

\* binascii.hexlify(bs).decode('ascii')
hexlify(bs) ==
    LET n == Len(bs)
        blobs == {i \in 1..n : ~IsByte(bs[i])}
        \* the number of characters and runs before segment i
        Off(i) == 2 * (i - 1) - Cardinality({j \in blobs : j < i})
    IN  [k \in 1..Off(n + 1) |->
            LET i == CHOOSE j \in 1..n : Off(j) < k /\ k <= Off(j + 1)
            IN  IF ~IsByte(bs[i]) THEN <<"hex", bs[i]>>
                ELSE IF k = Off(i) + 1 THEN HexDigit(bs[i][2] \div 16)
                ELSE HexDigit(bs[i][2] % 16)]

\* eth_utils.encode_hex: always 0x-prefixed
encode_hex(bs) == add_0x_prefix(hexlify(bs))

\* s.encode(): UTF-8 of an ASCII text
str_encode(s) == [i \in 1..Len(s) |-> B(s[i][2])]

\* chr(n).encode(): UTF-8 of one code point below 0x800
chr_encode(n) ==
    IF n < 128 THEN <<B(n)>> ELSE <<B(192 + (n \div 64)), B(128 + (n % 64))>>

\* eth_utils.keccak
keccak(msg) == <<Blob(<<"keccak", msg>>, 1, 32)>>

----------------------------------------------------------------------------
(* coincurve *)

IsPublicKey(x) == Len(x) = 1 /\ x[1][1] = "PublicKey"

\* PrivateKey.from_hex(hexstr): the secret is 32 bytes, 0 < secret < group order
\* (every 32-byte secret the model draws is below the order)
PrivateKey_from_hex(s) ==
    LET secret == unhexlify(s)
    IN  IF IsErr(secret) THEN Err("ValueError")
        ELSE IF BytesLen(secret) > 32 \/ \A i \in 1..Len(secret) : secret[i] = B(0)
             THEN Err("ValueError")
        ELSE << <<"PrivateKey", Rep(B(0), 32 - Len(secret)) \o secret>> >>

\* PrivateKey.public_key
public_key(pk) == << <<"PublicKey", <<"of", pk[1][2]>>>> >>

\* PublicKey.format(compressed=False): the tag byte 0x04 and 64 coordinate bytes
pubkey_format(pubkey) == <<B(4), Blob(<<"point", pubkey[1][2]>>, 1, 64)>>

\* PrivateKey.sign_recoverable(msg, hasher=None): r || s || recid.  rid is the
\* recovery id of the nonce point the library derives, 0 or 1.
sign_recoverable(pk, msg, rid) ==
    IF BytesLen(msg) # 32 THEN Err("ValueError")
    ELSE <<Blob(<<"ecdsa", pk[1][2], msg, rid>>, 1, 64), B(rid)>>

\* small r for which x = r, respectively x = r + n, is the abscissa of a point
\* of secp256k1 (r < p - n holds for all of them)
XOnCurve == {1, 2, 3, 4, 6, 8}

XPlusNOnCurve == {2, 4, 6, 7, 9, 11}

\* a hand-made r || s with small r and s
CraftedBody(r, s) == Blob(<<"rs", r, s>>, 1, 64)

\* PublicKey.from_signature_and_message(sig, msg, hasher=None):
\* deserialize_recoverable (65 bytes, recid in 0..3), then secp256k1's recover:
\* recid & 2 selects x = r + n and needs r < p - n, recid & 1 the parity of y.
from_signature_and_message(sig, msg) ==
    IF BytesLen(sig) # 65 THEN Err("ValueError")
    ELSE IF ~IsByte(sig[Len(sig)]) \/ Len(sig) # 2 THEN Err("ValueError")
    ELSE LET v == sig[2][2]
             t == sig[1][2]
         IN  IF v > 3 THEN Err("ValueError")
             ELSE IF BytesLen(msg) # 32 THEN Err("ValueError")
             ELSE IF t[1] = "ecdsa"
                  THEN IF v = t[4] /\ msg = t[3]
                       THEN << <<"PublicKey", <<"of", t[2]>>>> >>
                       ELSE IF v < 2
                            THEN << <<"PublicKey", <<"recovered", t, v, msg>>>> >>
                            ELSE Err("ValueError")
             ELSE IF t[1] = "rs"
                  THEN IF t[2] = 0 \/ t[3] = 0 THEN Err("ValueError")
                       ELSE IF (v < 2 /\ t[2] \in XOnCurve) \/ (v >= 2 /\ t[2] \in XPlusNOnCurve)
                            THEN << <<"PublicKey", <<"recovered", t, v, msg>>>> >>
                            ELSE Err("ValueError")
             ELSE Err("ValueError")

----------------------------------------------------------------------------
(* crypto.py *)

BytesArg(v) == [type |-> "bytes", val |-> v]

StrArg(v) == [type |-> "str", val |-> v]

IntArg(v) == [type |-> "int", val |-> v]

TupleArg(v, size) == [type |-> "tuple", val |-> v, size |-> size]

OtherArg == [type |-> "NoneType"]

\* format_int with the sign dropped: a negative value encoded as its magnitude
format_int_abs(value, size) ==
    decode_hex(zfill(format_x([neg |-> FALSE, mag |-> value.mag]), size \div 4))

format_int(value, size) ==
    IF ~value.neg
    THEN decode_hex(zfill(format_x(value), size \div 4))
    ELSE IF size < 0 THEN Err("ValueError")
         ELSE decode_hex(format_x(ShlAdd(size, value)))

\* the dispatch with every hex string decoded, prefixed or not
sha3_encode_any_hex(arg) ==
    IF arg.type = "bytes" THEN arg.val
    ELSE IF arg.type = "str"
         THEN IF \A i \in 1..Len(arg.val) :
                    IsChar(arg.val[i]) /\ IsHexChar(arg.val[i][2])
              THEN decode_hex(arg.val)
              ELSE IF Len(arg.val) >= 2 /\ SubSeq(arg.val, 1, 2) = Prefix0x
                   THEN decode_hex(SubSeq(arg.val, 3, Len(arg.val)))
                   ELSE str_encode(arg.val)
    ELSE IF arg.type = "int" THEN format_int(arg.val, 256)
    ELSE IF arg.type = "tuple" THEN format_int(arg.val, arg.size)
    ELSE Err("ValueError")

sha3_encode(arg) ==
    IF arg.type = "bytes" THEN arg.val
    ELSE IF arg.type = "str"
         THEN IF Len(arg.val) >= 2 /\ SubSeq(arg.val, 1, 2) = Prefix0x
              THEN decode_hex(SubSeq(arg.val, 3, Len(arg.val)))
              ELSE str_encode(arg.val)
    ELSE IF arg.type = "int" THEN format_int(arg.val, 256)
    ELSE IF arg.type = "tuple" THEN format_int(arg.val, arg.size)
    ELSE Err("ValueError")

RECURSIVE Concat(_)
Concat(seqs) == IF Len(seqs) = 0 THEN <<>> ELSE Head(seqs) \o Concat(Tail(seqs))

\* the first argument that cannot be encoded raises
sha3(args) ==
    LET encs == SubSeq([i \in 1..Len(args) |-> sha3_encode(args[i])], 1, Len(args))
        errs == {i \in 1..Len(args) : IsErr(encs[i])}
    IN  IF errs # {} THEN encs[Min(errs)] ELSE keccak(Concat(encs))

sha3_hex(args) ==
    LET h == sha3(args)
    IN  IF IsErr(h) THEN h ELSE encode_hex(h)

\* eth_utils.to_normalized_address: lowercase, 0x-prefixed, 40 hex digits
to_normalized_address(s) ==
    LET low == add_0x_prefix([i \in 1..Len(s) |->
                                IF IsChar(s[i]) THEN <<"c", LowerChar(s[i][2])>> ELSE s[i]])
    IN  IF StrLen(low) = 42
           /\ \A i \in 3..Len(low) : IsChar(low[i]) => IsHexChar(low[i][2])
        THEN low
        ELSE Err("ValueError")

Bool(b) == << <<"bool", b>> >>

equal_addrs(addr1, addr2) ==
    LET a == to_normalized_address(addr1)
        b == to_normalized_address(addr2)
    IN  IF IsErr(a) THEN a
        ELSE IF IsErr(b) THEN b
        ELSE Bool(a = b)

\* secret: the 32 bytes PrivateKey() draws
generate_privkey(secret) == encode_hex(secret)

pubkey_to_addr(pubkey) ==
    LET raw == IF IsPublicKey(pubkey) THEN pubkey_format(pubkey) ELSE pubkey
    IN  IF Len(raw) > 0 /\ raw[1][1] \notin {"b", "blob"} THEN Err("AssertionError")
        ELSE encode_hex(LastBytes(sha3(<<BytesArg(Tail(raw))>>), 20))

privkey_to_addr(privkey) ==
    LET pk == PrivateKey_from_hex(remove_0x_prefix(privkey))
    IN  IF IsErr(pk) THEN pk ELSE pubkey_to_addr(public_key(pk))

\* addr_from_sig with the legacy test written > 27
addr_from_sig_strict(sig, msg) ==
    IF Len(sig) = 0 THEN Err("IndexError")
    ELSE LET tail == sig[Len(sig)]
             norm == IF IsByte(tail) /\ tail[2] > 27
                     THEN SubSeq(sig, 1, Len(sig) - 1) \o <<B(tail[2] - 27)>>
                     ELSE sig
             receiver_pubkey == from_signature_and_message(norm, msg)
         IN  IF IsErr(receiver_pubkey) THEN receiver_pubkey
             ELSE pubkey_to_addr(receiver_pubkey)

addr_from_sig(sig, msg) ==
    IF Len(sig) = 0 THEN Err("IndexError")
    ELSE LET tail == sig[Len(sig)]
             \* a string that ends inside an opaque blob is passed on as it is: it
             \* is 64 bytes long here, and the rewrite keeps the length
             norm == IF IsByte(tail) /\ tail[2] >= 27
                     THEN SubSeq(sig, 1, Len(sig) - 1) \o <<B(tail[2] - 27)>>
                     ELSE sig
             receiver_pubkey == from_signature_and_message(norm, msg)
         IN  IF IsErr(receiver_pubkey) THEN receiver_pubkey
             ELSE pubkey_to_addr(receiver_pubkey)

sign(privkey, msg, rid) ==
    LET pk == PrivateKey_from_hex(remove_0x_prefix(privkey))
    IN  IF IsErr(pk) THEN pk
        ELSE IF BytesLen(msg) # 32 THEN Err("AssertionError")
        ELSE LET sig == sign_recoverable(pk, msg, rid)
             IN  IF BytesLen(sig) # 65 THEN Err("AssertionError")
                 ELSE SubSeq(sig, 1, Len(sig) - 1) \o chr_encode(sig[Len(sig)][2])

balance_message_hash(receiver, open_block_number, balance, contract_address) ==
    sha3(<<StrArg(receiver), TupleArg(open_block_number, 32),
           TupleArg(balance, 192), StrArg(contract_address)>>)

sign_balance_proof(privkey, receiver, open_block_number, balance, contract_address, rid) ==
    LET msg == balance_message_hash(receiver, open_block_number, balance, contract_address)
    IN  IF IsErr(msg) THEN msg ELSE sign(privkey, msg, rid)

\* a verifier that hashes the two addresses in the other order
verify_balance_proof_reordered(receiver, open_block_number, balance, balance_sig, contract_address) ==
    LET msg == balance_message_hash(contract_address, open_block_number, balance, receiver)
    IN  IF IsErr(msg) THEN msg ELSE addr_from_sig(balance_sig, msg)

\* a verifier that remembers: it refuses a balance below the highest it accepted
verify_balance_proof_monotonic(receiver, open_block_number, balance, balance_sig, contract_address) ==
    LET msg == balance_message_hash(receiver, open_block_number, balance, contract_address)
    IN  IF IsErr(msg) THEN msg
        ELSE IF highest # <<>> /\ IntLess(balance, highest[1]) THEN Err("ValueError")
        ELSE addr_from_sig(balance_sig, msg)

verify_balance_proof(receiver, open_block_number, balance, balance_sig, contract_address) ==
    LET msg == balance_message_hash(receiver, open_block_number, balance, contract_address)
    IN  IF IsErr(msg) THEN msg ELSE addr_from_sig(balance_sig, msg)

closing_agreement_message_hash(balance_sig) == sha3(<<BytesArg(balance_sig)>>)

sign_close(privkey, balance_sig, rid) ==
    LET msg == closing_agreement_message_hash(balance_sig)
    IN  sign(privkey, msg, rid)

\* a verifier that hashes the balance signature without its recovery byte
verify_closing_signature_trimmed(balance_sig, closing_sig) ==
    LET msg == closing_agreement_message_hash(SubSeq(balance_sig, 1, Len(balance_sig) - 1))
    IN  addr_from_sig(closing_sig, msg)

verify_closing_signature(balance_sig, closing_sig) ==
    LET msg == closing_agreement_message_hash(balance_sig)
    IN  addr_from_sig(closing_sig, msg)

----------------------------------------------------------------------------
(* Inputs *)

Keys == 1..NumKeys

\* the 32-byte secret of key k: the byte 0xkk repeated
KeySecret(k) == Rep(B(17 * k), 32)

\* the private key of k as the hex text callers hold, with or without 0x
PrivKeyText(k, prefixed) ==
    (IF prefixed THEN Prefix0x ELSE <<>>) \o Rep(HexDigit(k), 64)

RecIds == {0, 1}

\* one 20-byte address, abab..ab, in the textual forms a caller may hold
AddrChars(hi, lo) == [i \in 1..40 |-> C(IF i % 2 = 1 THEN hi ELSE lo)]

ReceiverLower == Prefix0x \o AddrChars("a", "b")

ReceiverUpper == Prefix0x \o AddrChars("A", "B")

ReceiverBare == AddrChars("a", "b")

ReceiverCapX == <<Char0, CharUpperX>> \o AddrChars("a", "b")

Receivers == {ReceiverLower, ReceiverUpper, ReceiverBare, ReceiverCapX}

\* the forms the sender signs over
SignReceivers == {ReceiverLower, ReceiverBare}

ContractLower == Prefix0x \o AddrChars("c", "d")

ContractBare == AddrChars("c", "d")

Contracts == {ContractLower, ContractBare}

\* an odd number of hex digits
ReceiverOdd == Prefix0x \o <<C("a"), C("b"), C("c")>>

Blocks == {Big(b) : b \in 1..MaxBlock}

Pow2(k) == [neg |-> FALSE, mag |-> Pow2Mag(k)]

Neg(x) == [neg |-> TRUE, mag |-> x.mag]

\* 2^192 - 1
MaxUint192 == [neg |-> FALSE, mag |-> SubMag(Pow2Mag(192), <<1>>)]

Balances == {Big(1), Pow2(191), MaxUint192, Pow2(192), Big(-1), Neg(Pow2(191))}

LastByteValues == {0, 1, 2, 3, 4, 26, 27, 28, 29, 30, 31, 255}

Widths == {-8, 0, 4, 7, 8, 12, 16, 32}

\* sig with its last byte replaced by v
WithLastByte(sig, v) == SubSeq(sig, 1, Len(sig) - 1) \o <<B(v)>>

CraftedSigs == {<<CraftedBody(r, 1), B(v)>> : r \in 1..MaxCraftedR, v \in LastByteValues}

TypedValues ==
    {TupleArg(Big(v), size) : v \in (0 - MaxVal)..MaxVal, size \in Widths}
        \cup {IntArg(Big(v)) : v \in {-1, 0, 5}}
        \cup {StrArg(t) : t \in Receivers \cup {ReceiverOdd}}
        \cup {BytesArg(KeySecret(1)), OtherArg}

ArgLists ==
    {<<>>} \cup {<<a>> : a \in TypedValues}
           \cup {<<StrArg(ReceiverLower), a>> : a \in TypedValues}

----------------------------------------------------------------------------
(* State *)

NoCall == [op |-> "none"]

NoWire == [kind |-> "none"]

Init ==
    /\ pc = "idle"
    /\ last = NoCall
    /\ wire = NoWire
    /\ highest = <<>>

\* the caller takes the result
Return ==
    /\ pc = "returned"
    /\ pc' = "idle"
    /\ last' = NoCall
    /\ UNCHANGED <<wire, highest>>

----------------------------------------------------------------------------
(* The balance-proof and closing-agreement protocols *)

\* the digest the signature on the wire was made over
WireDigest ==
    IF wire.kind = "balance_proof"
    THEN balance_message_hash(wire.receiver, wire.block, wire.balance, wire.contract)
    ELSE closing_agreement_message_hash(wire.balance_sig)

\* one call of sign_balance_proof, its arguments drawn from the given sets
SignBalanceProofOn(keys, receivers, blocks, balances, contracts) ==
    \E k \in keys, rid \in RecIds, r \in receivers, blk \in blocks,
       bal \in balances, c \in contracts :
       LET out == sign_balance_proof(PrivKeyText(k, FALSE), r, blk, bal, c, rid)
       IN  /\ last' = [op |-> "sign_balance_proof", privkey |-> PrivKeyText(k, FALSE),
                       receiver |-> r, block |-> blk, balance |-> bal,
                       contract |-> c, rid |-> rid, out |-> out]
           /\ wire' = IF IsErr(out) THEN wire
                      ELSE [kind |-> "balance_proof", sig |-> out, key |-> k,
                            privkey |-> PrivKeyText(k, FALSE), receiver |-> r,
                            block |-> blk, balance |-> bal, contract |-> c]

\* the sender opens a channel with its first proof and then signs further
\* balances for the same channel
SignBalanceProof ==
    /\ pc = "idle"
    /\ IF wire.kind = "none"
       THEN SignBalanceProofOn(Keys, SignReceivers, Blocks, Balances, {ContractLower})
       ELSE SignBalanceProofOn({wire.key}, {wire.receiver}, {wire.block}, Balances,
                               {wire.contract})
    /\ pc' = "returned"
    /\ UNCHANGED highest

\* the channel parameters the receiving side may check the wire's proof with:
\* the sender's, or the sender's with one field replaced
VerifyInputs ==
    {<<r, wire.block, wire.balance, wire.contract>> : r \in Receivers}
        \cup {<<wire.receiver, blk, wire.balance, wire.contract>> : blk \in Blocks}
        \cup {<<wire.receiver, wire.block, bal, wire.contract>> : bal \in Balances}
        \cup {<<wire.receiver, wire.block, wire.balance, c>> : c \in Contracts}

\* the receiving side checks the proof on the wire against channel parameters;
\* highest is the observer's record of the highest balance that verified to
\* the payer
VerifyBalanceProof ==
    /\ pc = "idle"
    /\ wire.kind = "balance_proof"
    /\ \E in \in VerifyInputs :
          LET out == verify_balance_proof(in[1], in[2], in[3], wire.sig, in[4])
          IN  /\ last' = [op |-> "verify_balance_proof", receiver |-> in[1],
                          block |-> in[2], balance |-> in[3], sig |-> wire.sig,
                          contract |-> in[4], seen |-> highest, out |-> out]
              /\ highest' = IF out = privkey_to_addr(wire.privkey)
                               /\ (highest = <<>> \/ IntLess(highest[1], in[3]))
                            THEN <<in[3]>>
                            ELSE highest
    /\ pc' = "returned"
    /\ UNCHANGED wire

Next ==
    \/ SignBalanceProof
    \/ VerifyBalanceProof
    \/ Return

Spec == Init /\ [][Next]_vars

----------------------------------------------------------------------------
(* Signatures: recovery, the recovery id, and the closing agreement *)

\* one balance proof per key and recovery id to recover from
SignProof ==
    /\ pc = "idle"
    /\ wire.kind = "none"
    /\ SignBalanceProofOn(Keys, {ReceiverLower}, {Big(1)}, {Big(1)}, {ContractLower})
    /\ pc' = "returned"
    /\ UNCHANGED highest

\* the signatures handed to addr_from_sig: the one on the wire, that one cut
\* short or with another last byte, and signatures made up without a key
RecoverySigs ==
    {wire.sig, SubSeq(wire.sig, 1, Len(wire.sig) - 1)}
        \cup {WithLastByte(wire.sig, v) : v \in LastByteValues}
        \cup CraftedSigs

AddrFromSig ==
    /\ pc = "idle"
    /\ wire.kind # "none"
    /\ \E sig \in RecoverySigs, msg \in {WireDigest, keccak(<<>>)} :
          last' = [op |-> "addr_from_sig", sig |-> sig, msg |-> msg,
                   out |-> addr_from_sig(sig, msg)]
    /\ pc' = "returned"
    /\ UNCHANGED <<wire, highest>>

SignClose ==
    /\ pc = "idle"
    /\ \E k \in Keys, rid \in RecIds,
          bsig \in (IF wire.kind = "balance_proof" THEN {wire.sig} ELSE {})
                       \cup {<<CraftedBody(1, 1), B(0)>>} :
          LET out == sign_close(PrivKeyText(k, FALSE), bsig, rid)
          IN  /\ last' = [op |-> "sign_close", privkey |-> PrivKeyText(k, FALSE),
                          balance_sig |-> bsig, rid |-> rid, out |-> out]
              /\ wire' = IF IsErr(out) THEN wire
                         ELSE [kind |-> "closing", sig |-> out, key |-> k,
                               privkey |-> PrivKeyText(k, FALSE), balance_sig |-> bsig]
    /\ pc' = "returned"
    /\ UNCHANGED highest

VerifyClosingSignature ==
    /\ pc = "idle"
    /\ wire.kind = "closing"
    /\ \E bsig \in {wire.balance_sig, <<CraftedBody(2, 1), B(0)>>} :
          last' = [op |-> "verify_closing_signature", balance_sig |-> bsig,
                   closing_sig |-> wire.sig,
                   out |-> verify_closing_signature(bsig, wire.sig)]
    /\ pc' = "returned"
    /\ UNCHANGED <<wire, highest>>

NextSig ==
    \/ SignProof
    \/ AddrFromSig
    \/ SignClose
    \/ VerifyClosingSignature
    \/ Return

SpecSig == Init /\ [][NextSig]_vars

----------------------------------------------------------------------------
(* The encoders and the address codec, called on their own *)

Sha3 ==
    /\ pc = "idle"
    /\ \E args \in ArgLists :
          last' = [op |-> "sha3", args |-> args, out |-> sha3(args)]
    /\ pc' = "returned"
    /\ UNCHANGED <<wire, highest>>

Sha3Hex ==
    /\ pc = "idle"
    /\ \E args \in ArgLists :
          last' = [op |-> "sha3_hex", args |-> args, out |-> sha3_hex(args)]
    /\ pc' = "returned"
    /\ UNCHANGED <<wire, highest>>

GeneratePrivkey ==
    /\ pc = "idle"
    /\ \E k \in Keys :
          last' = [op |-> "generate_privkey", secret |-> KeySecret(k),
                   out |-> generate_privkey(KeySecret(k))]
    /\ pc' = "returned"
    /\ UNCHANGED <<wire, highest>>

PrivkeyToAddr ==
    /\ pc = "idle"
    /\ \E k \in Keys, prefixed \in BOOLEAN :
          last' = [op |-> "privkey_to_addr", privkey |-> PrivKeyText(k, prefixed),
                   out |-> privkey_to_addr(PrivKeyText(k, prefixed))]
    /\ pc' = "returned"
    /\ UNCHANGED <<wire, highest>>

PubkeyToAddr ==
    /\ pc = "idle"
    /\ \E k \in Keys, formatted \in BOOLEAN :
          LET pk == public_key(PrivateKey_from_hex(PrivKeyText(k, FALSE)))
              pubkey == IF formatted THEN pubkey_format(pk) ELSE pk
          IN  last' = [op |-> "pubkey_to_addr", pubkey |-> pubkey,
                       out |-> pubkey_to_addr(pubkey)]
    /\ pc' = "returned"
    /\ UNCHANGED <<wire, highest>>

EqualAddrs ==
    /\ pc = "idle"
    /\ \E addr1 \in Receivers \cup Contracts \cup {ReceiverOdd},
          addr2 \in Receivers \cup Contracts \cup {ReceiverOdd} :
          last' = [op |-> "equal_addrs", addr1 |-> addr1, addr2 |-> addr2,
                   out |-> equal_addrs(addr1, addr2)]
    /\ pc' = "returned"
    /\ UNCHANGED <<wire, highest>>

NextHash ==
    \/ Sha3
    \/ Sha3Hex
    \/ GeneratePrivkey
    \/ PrivkeyToAddr
    \/ PubkeyToAddr
    \/ EqualAddrs
    \/ Return

SpecHash == Init /\ [][NextHash]_vars

----------------------------------------------------------------------------
(* Properties of the balance-proof protocol, checked under Spec *)

\* the address of the key whose signature is on the wire
Signer == privkey_to_addr(wire.privkey)

\* the call in last names the receiver, block and contract the wire's proof
\* was signed over
SameChannel ==
    /\ last.receiver = wire.receiver
    /\ last.block = wire.block
    /\ last.contract = wire.contract

IsUint192(b) == ~b.neg /\ IntLess(b, Pow2(192))

\* -2^191 <= b <= -1
IsWrappingBalance(b) == b.neg /\ ~IntLess(b, Neg(Pow2(191)))

Has0xPrefix(s) == Len(s) >= 2 /\ SubSeq(s, 1, 2) = Prefix0x

NoMonotonicityEnforced ==
    (/\ last.op = "verify_balance_proof"
     /\ SameChannel
     /\ last.balance = wire.balance
     /\ last.seen # <<>>
     /\ IntLess(last.balance, last.seen[1]))
        => /\ last.out = Signer
           /\ highest = last.seen

NoMonotonicityEnforcedWitness ==
    /\ last.op = "verify_balance_proof"
    /\ SameChannel
    /\ last.balance = wire.balance
    /\ last.balance = Big(1)
    /\ last.seen = <<MaxUint192>>
    /\ last.out = Signer

\* C9: a balance b with -2^191 <= b <= -1 is signed, not rejected; its digest
\* is the digest of b + 2^192, and its signature verifies to the signer when
\* checked with the balance b + 2^192
NegativeBalanceWraps ==
    /\ (last.op = "sign_balance_proof" /\ IsWrappingBalance(last.balance))
          => /\ ~IsErr(last.out)
             /\ balance_message_hash(last.receiver, last.block, last.balance,
                                     last.contract)
                  = balance_message_hash(last.receiver, last.block,
                                         ShlAdd(192, last.balance), last.contract)
    /\ (/\ last.op = "verify_balance_proof"
        /\ SameChannel
        /\ IsWrappingBalance(wire.balance)
        /\ last.balance = ShlAdd(192, wire.balance))
           => last.out = Signer

NegativeBalanceWrapsWitness ==
    /\ last.op = "verify_balance_proof"
    /\ SameChannel
    /\ wire.balance = Neg(Pow2(191))
    /\ last.balance = Pow2(191)
    /\ ~IsErr(last.out)
    /\ last.out = Signer

\* the forms of the receiver address that eth_utils of any version normalises
PlainForms == {ReceiverLower, ReceiverUpper, ReceiverBare}

\* C10: a receiver string is hashed as its 20 decoded bytes when it starts with
\* '0x' and as its own characters otherwise; so of two forms equal_addrs calls
\* equal, a proof signed over one verifies to the signer over the other exactly
\* when both carry the prefix or both lack it
DigestDependsOnAddressForm ==
    /\ last.op \in {"sign_balance_proof", "verify_balance_proof"}
          => BytesLen(sha3_encode(StrArg(last.receiver)))
                = IF Has0xPrefix(last.receiver) THEN 20 ELSE StrLen(last.receiver)
    /\ (/\ last.op = "verify_balance_proof"
        /\ last.block = wire.block
        /\ last.balance = wire.balance
        /\ last.contract = wire.contract
        /\ last.receiver \in PlainForms
        /\ wire.receiver \in PlainForms)
           => /\ equal_addrs(last.receiver, wire.receiver) = Bool(TRUE)
              /\ ~IsErr(last.out)
              /\ (last.out = Signer)
                    <=> (Has0xPrefix(last.receiver) <=> Has0xPrefix(wire.receiver))

DigestDependsOnAddressFormWitness ==
    /\ last.op = "verify_balance_proof"
    /\ last.block = wire.block
    /\ last.balance = wire.balance
    /\ last.contract = wire.contract
    /\ wire.receiver = ReceiverLower
    /\ last.receiver = ReceiverBare
    /\ equal_addrs(last.receiver, wire.receiver) = Bool(TRUE)
    /\ ~IsErr(last.out)
    /\ last.out # Signer

----------------------------------------------------------------------------
(* Properties of recovery and of the closing agreement, checked under SpecSig *)

\* the last byte of the signature handed to addr_from_sig, when it is one the
\* caller wrote
LastByteGiven ==
    /\ last.op = "addr_from_sig"
    /\ BytesLen(last.sig) = 65
    /\ IsByte(last.sig[Len(last.sig)])

LastByte == last.sig[Len(last.sig)][2]

\* the recovery id after the legacy normalisation
Normalised(v) == IF v >= 27 THEN v - 27 ELSE v

\* C2: for a signature whose last byte v is 0 or 1 and any digest, recovery
\* from the signature with its last byte replaced by v + 27 returns what
\* recovery from the signature itself returns
LegacyRecoveryId ==
    (LastByteGiven /\ LastByte \in {0, 1})
        => addr_from_sig(WithLastByte(last.sig, LastByte + 27), last.msg) = last.out

LegacyRecoveryIdWitness ==
    /\ LastByteGiven
    /\ LastByte = 1
    /\ last.sig = wire.sig
    /\ last.msg = WireDigest
    /\ last.out = Signer
    /\ addr_from_sig(WithLastByte(last.sig, 28), last.msg) = Signer

\* C5: sign_close returns a signature for a 65-byte balance signature, and
\* verify_closing_signature of that balance signature and the closing
\* signature returns the address of the key that signed
ClosingRoundTrip ==
    /\ (last.op = "sign_close" /\ BytesLen(last.balance_sig) = 65) => ~IsErr(last.out)
    /\ (/\ last.op = "verify_closing_signature"
        /\ last.balance_sig = wire.balance_sig
        /\ last.closing_sig = wire.sig)
           => last.out = Signer

ClosingRoundTripWitness ==
    /\ last.op = "verify_closing_signature"
    /\ last.balance_sig = wire.balance_sig
    /\ last.closing_sig = wire.sig
    /\ BytesLen(last.balance_sig) = 65
    /\ last.balance_sig[1][2][1] = "ecdsa"
    /\ ~IsErr(last.out)
    /\ last.out = Signer

\* C6: addr_from_sig returns no address for a 65-byte signature whose last
\* byte, after 27 is subtracted from a byte of 27 or more, is not 0 or 1
RecoveryIdOutsideZeroOneRejected ==
    (LastByteGiven /\ Normalised(LastByte) \notin {0, 1}) => IsErr(last.out)

----------------------------------------------------------------------------
(* Properties of the encoders, checked under SpecHash *)

\* the bytes a digest was computed over
PreImage(h) == h[1][2][2]

IsSized(arg) == arg.type = "tuple"

ValidWidth(size) == size > 0 /\ size % 8 = 0

\* C3: hashing one sized integer (value, size), size a positive multiple of 8,
\* hashes exactly size / 8 bytes, whatever the value
SizedIntWidth ==
    (/\ last.op = "sha3"
     /\ Len(last.args) = 1
     /\ IsSized(last.args[1])
     /\ ValidWidth(last.args[1].size))
        => /\ ~IsErr(last.out)
           /\ BytesLen(PreImage(last.out)) = last.args[1].size \div 8

\* C4: hashing raises, and returns no digest, when an argument is a sized
\* integer whose size is not a positive multiple of 8
InvalidWidthRejected ==
    (/\ last.op \in {"sha3", "sha3_hex"}
     /\ \E i \in 1..Len(last.args) :
           IsSized(last.args[i]) /\ ~ValidWidth(last.args[i].size))
        => IsErr(last.out)

\* C7: the strings sha3_hex and generate_privkey return do not start with '0x'
NoPrefixOnHashesAndKeys ==
    (last.op \in {"sha3_hex", "generate_privkey"} /\ ~IsErr(last.out))
        => ~Has0xPrefix(last.out)

====
